---- MODULE Spec2Model ----
(***************************************************************************)
(* Model of the two Ansible modules karaf_config.py and karaf_feature.py.  *)
(*                                                                         *)
(* Text is modelled as a sequence of one-character strings, so that the    *)
(* parsing code (split, find, strip, int, float, lower) is computed        *)
(* character by character as Python computes it.  A Python scalar is a     *)
(* record [t, n, e, s]: t is the type tag, n the integer mantissa (or 0/1  *)
(* for a bool), e the number of decimal digits after the point (floats),   *)
(* s the text of a str.                                                    *)
(***************************************************************************)
EXTENDS Integers, Sequences, FiniteSets, TLC

----------------------------------------------------------------------------
(* Text primitives of Python's str type *)

NL == "\n"

IsSpace(c) == c \in {" ", "\t", "\r", NL}

RECURSIVE LStrip(_)
LStrip(s) ==
    IF s # <<>> /\ IsSpace(Head(s)) THEN LStrip(Tail(s)) ELSE s

RECURSIVE RStrip(_)
RStrip(s) ==
    IF s # <<>> /\ IsSpace(s[Len(s)]) THEN RStrip(SubSeq(s, 1, Len(s) - 1)) ELSE s

\* str.strip()
Strip(s) == RStrip(LStrip(s))

\* c in s
Contains(s, c) == \E i \in 1..Len(s) : s[i] = c

\* str.find(c) for a one-character c: the first position (1-based), 0 for Python's -1
Find(s, c) ==
    IF Contains(s, c)
    THEN CHOOSE i \in 1..Len(s) : s[i] = c /\ \A j \in 1..(i - 1) : s[j] # c
    ELSE 0

\* str.split(c) for a one-character c
RECURSIVE Split(_, _)
Split(s, c) ==
    LET i == Find(s, c)
    IN  IF i = 0 THEN <<s>>
        ELSE <<SubSeq(s, 1, i - 1)>> \o Split(SubSeq(s, i + 1, Len(s)), c)

\* sep.join(parts)
RECURSIVE Join(_, _)
Join(parts, sep) ==
    IF parts = <<>> THEN <<>>
    ELSE IF Len(parts) = 1 THEN parts[1]
    ELSE parts[1] \o sep \o Join(Tail(parts), sep)

\* str.index(sub): the first position where sub starts, 0 for ValueError
Index(s, sub) ==
    LET starts == {i \in 1..(Len(s) - Len(sub) + 1) :
                      SubSeq(s, i, i + Len(sub) - 1) = sub}
    IN  IF starts = {} THEN 0
        ELSE CHOOSE i \in starts : \A j \in starts : i <= j

UpperChars == <<"A", "B", "C", "D", "E", "F", "G", "H", "I", "J", "K", "L", "M",
                "N", "O", "P", "Q", "R", "S", "T", "U", "V", "W", "X", "Y", "Z">>
LowerChars == <<"a", "b", "c", "d", "e", "f", "g", "h", "i", "j", "k", "l", "m",
                "n", "o", "p", "q", "r", "s", "t", "u", "v", "w", "x", "y", "z">>

LowerChar(c) ==
    IF \E i \in 1..Len(UpperChars) : UpperChars[i] = c
    THEN LowerChars[CHOOSE i \in 1..Len(UpperChars) : UpperChars[i] = c]
    ELSE c

\* str.lower()
Lower(s) == [i \in 1..Len(s) |-> LowerChar(s[i])]

DigitChars == <<"0", "1", "2", "3", "4", "5", "6", "7", "8", "9">>

IsDigit(c) == \E i \in 1..Len(DigitChars) : DigitChars[i] = c

DigitVal(c) == (CHOOSE i \in 1..Len(DigitChars) : DigitChars[i] = c) - 1

AllDigits(s) == \A i \in 1..Len(s) : IsDigit(s[i])

RECURSIVE DigitsVal(_)
DigitsVal(s) ==
    IF s = <<>> THEN 0 ELSE 10 * DigitsVal(SubSeq(s, 1, Len(s) - 1)) + DigitVal(s[Len(s)])

RECURSIVE Pow10(_)
Pow10(k) == IF k = 0 THEN 1 ELSE 10 * Pow10(k - 1)

RECURSIVE NatText(_)
NatText(n) ==
    IF n < 10 THEN <<DigitChars[n + 1]>>
    ELSE NatText(n \div 10) \o <<DigitChars[(n % 10) + 1]>>

----------------------------------------------------------------------------
(* Python scalars *)

PyNone     == [t |-> "none",  n |-> 0, e |-> 0, s |-> <<>>]
PyInt(n)   == [t |-> "int",   n |-> n, e |-> 0, s |-> <<>>]
PyBool(b)  == [t |-> "bool",  n |-> IF b THEN 1 ELSE 0, e |-> 0, s |-> <<>>]
PyFloat(n, e) == [t |-> "float", n |-> n, e |-> e, s |-> <<>>]
PyStr(s)   == [t |-> "str",   n |-> 0, e |-> 0, s |-> s]
\* float('nan'), float('inf'), float('-inf'): n is the sign
PyNaN      == [t |-> "float", n |-> 0, e |-> 0, s |-> <<"n", "a", "n">>]
PyInf(sgn) == [t |-> "float", n |-> sgn, e |-> 0, s |-> <<"i", "n", "f">>]

IsFinite(v) == v.t \in {"int", "bool", "float"} /\ v.s = <<>>

\* Python's ==  on scalars: bool, int and float compare by numeric value
\* (True == 1, 1 == 1.0), a str only equals a str, None only None, nan nothing.
PyEq(a, b) ==
    IF IsFinite(a) /\ IsFinite(b) THEN a.n * Pow10(b.e) = b.n * Pow10(a.e)
    ELSE IF a.t = "str" /\ b.t = "str" THEN a.s = b.s
    ELSE IF a.t = "none" /\ b.t = "none" THEN TRUE
    ELSE IF a.t = "float" /\ b.t = "float" THEN a = b /\ a # PyNaN
    ELSE FALSE

\* truthiness: `if value:`
PyTruthy(v) ==
    IF v.t = "none" THEN FALSE
    ELSE IF v.t = "str" THEN v.s # <<>>
    ELSE IF v = PyNaN THEN TRUE
    ELSE v.n # 0

SignText(n) == IF n < 0 THEN <<"-">> ELSE <<>>

Abs(n) == IF n < 0 THEN -n ELSE n

\* the mantissa and digit count of a float with the trailing zeros dropped
RECURSIVE FloatNorm(_, _)
FloatNorm(n, e) ==
    IF e > 0 /\ n % 10 = 0 THEN FloatNorm(n \div 10, e - 1) ELSE <<n, e>>

RECURSIVE ZeroPad(_, _)
ZeroPad(s, width) == IF Len(s) >= width THEN s ELSE ZeroPad(<<"0">> \o s, width)

\* repr of a float in positional notation: 1.0, 0.5, 2.25
FloatText(v) ==
    IF v = PyNaN THEN <<"n", "a", "n">>
    ELSE IF v.s # <<>> THEN SignText(v.n) \o <<"i", "n", "f">>
    ELSE LET ne == FloatNorm(Abs(v.n), v.e)
             p  == Pow10(ne[2])
         IN  SignText(v.n) \o NatText(ne[1] \div p) \o <<".">> \o
             (IF ne[2] = 0 THEN <<"0">> ELSE ZeroPad(NatText(ne[1] % p), ne[2]))

\* '%s' % v
PyFormat(v) ==
    CASE v.t = "none"  -> <<"N", "o", "n", "e">>
      [] v.t = "int"   -> SignText(v.n) \o NatText(Abs(v.n))
      [] v.t = "bool"  -> IF v.n = 1 THEN <<"T", "r", "u", "e">>
                                      ELSE <<"F", "a", "l", "s", "e">>
      [] v.t = "float" -> FloatText(v)
      [] v.t = "str"   -> v.s

----------------------------------------------------------------------------
(* Value conversion, karaf_config.py *)

Failed == [ok |-> FALSE, v |-> PyNone]
Parsed(v) == [ok |-> TRUE, v |-> v]

\* the text without a leading sign, and the sign
Unsigned(s) == IF s # <<>> /\ Head(s) \in {"+", "-"} THEN Tail(s) ELSE s
SignOf(s) == IF s # <<>> /\ Head(s) = "-" THEN -1 ELSE 1

\* int(val) on a str: surrounding whitespace, an optional sign, decimal digits;
\* anything else raises ValueError
IntParse(val) ==
    LET body == Unsigned(Strip(val))
    IN  IF body # <<>> /\ AllDigits(body)
        THEN Parsed(PyInt(SignOf(Strip(val)) * DigitsVal(body)))
        ELSE Failed

\* float(val) on a str: surrounding whitespace, an optional sign, then nan, inf,
\* infinity (any case) or digits with an optional point.  The exponent form
\* (1e5) is not covered; no text of the bounded input sets carries one.
FloatParse(val) ==
    LET t    == Strip(val)
        body == Unsigned(t)
        dot  == Find(body, ".")
        ip   == IF dot = 0 THEN body ELSE SubSeq(body, 1, dot - 1)
        fp   == IF dot = 0 THEN <<>> ELSE SubSeq(body, dot + 1, Len(body))
    IN  IF Lower(body) = <<"n", "a", "n">> THEN Parsed(PyNaN)
        ELSE IF Lower(body) \in {<<"i", "n", "f">>,
                                 <<"i", "n", "f", "i", "n", "i", "t", "y">>}
             THEN Parsed(PyInf(SignOf(t)))
        ELSE IF AllDigits(ip) /\ AllDigits(fp) /\ Len(ip) + Len(fp) > 0
             THEN Parsed(PyFloat(SignOf(t) * DigitsVal(ip \o fp), Len(fp)))
        ELSE Failed

_BOOL_TYPES ==
    { <<"t", "r", "u", "e">>, <<"f", "a", "l", "s", "e">>, <<"y", "e", "s">>,
      <<"n", "o">>, <<"y">>, <<"n">> }

check_bool(value) ==
    IF Lower(value) \notin _BOOL_TYPES THEN Failed
    ELSE LET v == Lower(value)
         IN  Parsed(PyBool(v = <<"t", "r", "u", "e">> \/ v = <<"y", "e", "s">>
                           \/ v = <<"y">>))

\* constructors = [int, float, check_bool, str], the first that does not raise
convert(val) ==
    IF IntParse(val).ok THEN IntParse(val).v
    ELSE IF FloatParse(val).ok THEN FloatParse(val).v
    ELSE IF check_bool(val).ok THEN check_bool(val).v
    ELSE PyStr(val)

----------------------------------------------------------------------------
(* Python dicts are functions; d[k] = v on a dict *)

EmptyDict == << >>

DictPut(d, k, v) == [x \in (DOMAIN d) \cup {k} |-> IF x = k THEN v ELSE d[x]]

\* str.rfind(c) for a one-character c
FindLast(s, c) ==
    IF Contains(s, c)
    THEN CHOOSE i \in 1..Len(s) : s[i] = c /\ \A j \in (i + 1)..Len(s) : s[j] # c
    ELSE 0

\* the loop with the line cut at its last separator instead of its first
RECURSIVE ParseLines_LastSeparator(_, _)
ParseLines_LastSeparator(lines, result) ==
    IF lines = <<>> THEN result
    ELSE LET line == Head(lines)
             i    == FindLast(line, "=")
         IN  IF ~Contains(line, "=") THEN ParseLines_LastSeparator(Tail(lines), result)
             ELSE ParseLines_LastSeparator(Tail(lines),
                             DictPut(result,
                                     Strip(SubSeq(line, 1, i - 1)),
                                     convert(Strip(SubSeq(line, i + 1, Len(line))))))

\* the `for line in lines` loop of existing_properties, from `result`
RECURSIVE ParseLines(_, _)
ParseLines(lines, result) ==
    IF lines = <<>> THEN result
    ELSE LET line == Head(lines)
             i    == Find(line, "=")
         IN  IF ~Contains(line, "=") THEN ParseLines(Tail(lines), result)
             ELSE ParseLines(Tail(lines),
                             DictPut(result,
                                     Strip(SubSeq(line, 1, i - 1)),
                                     convert(Strip(SubSeq(line, i + 1, Len(line))))))

\* existing_properties, from the client's standard output on
ParseProperties(out) == ParseLines(Split(out, NL), EmptyDict)

----------------------------------------------------------------------------
(* The config handler, karaf_config.py *)

VARIABLES
    karaf,           \* the container's configuration: pid -> (property name -> text)
    c_pc,            \* position of the config handler: idle, main, queried, exited
    params,          \* module.params and module.check_mode of the invocation
    existing_props,  \* the dict existing_properties returned
    need,            \* need_change / need_delete
    result,          \* the result dict's `changed`
    calls,           \* the client commands run_command was given, in order
    before,          \* the container's configuration when the invocation began
    prev             \* the previous invocation: its params, result and calls

\* the property names and values a playbook gives, and the pids
PropOrder == << <<"a">>, <<"b">> >>
PropNames == {PropOrder[i] : i \in 1..Len(PropOrder)}
PropValues ==
    { PyInt(1), PyBool(FALSE), PyFloat(15, 1), PyStr(<<"x">>), PyStr(<<"1">>), PyNone }
Pids == { <<"p">>, <<"q">> }
\* the texts a property of the container holds before the first invocation
StoredTexts == { <<"1">>, <<"x">>, <<"t", "r", "u", "e">> }

Dicts(keys, values) == UNION { [ks -> values] : ks \in SUBSET keys }

\* d.keys() / d.items(): the dict's keys in its iteration order
Keys(d) == SelectSeq(PropOrder, LAMBDA k : k \in DOMAIN d)

Elems(seq) == {seq[i] : i \in 1..Len(seq)}

\* One client invocation: the sub-commands joined with ' && '
GetCmd(name, prop)      == [op |-> "config:property-get", pid |-> name, key |-> prop, value |-> <<>>]
SetCmd(name, k, v)      == [op |-> "config:property-set", pid |-> name, key |-> k, value |-> PyFormat(v)]
DeleteCmd(name, k)      == [op |-> "config:property-delete", pid |-> name, key |-> k, value |-> <<>>]

\* The container's answer to the batched property-get: a name=value line for
\* each requested property that is set (spec.md section 6)
RECURSIVE KarafGet(_, _)
KarafGet(store, cmds) ==
    IF cmds = <<>> THEN <<>>
    ELSE LET c == Head(cmds)
         IN  (IF c.key \in DOMAIN store[c.pid]
              THEN c.key \o <<"=">> \o store[c.pid][c.key] \o <<NL>>
              ELSE <<>>) \o KarafGet(store, Tail(cmds))

\* The container's configuration after a batch of property-set / property-delete
RECURSIVE KarafApply(_, _)
KarafApply(store, cmds) ==
    IF cmds = <<>> THEN store
    ELSE LET c == Head(cmds)
             cfg == store[c.pid]
             new == IF c.op = "config:property-set" THEN DictPut(cfg, c.key, c.value)
                    ELSE [k \in (DOMAIN cfg) \ {c.key} |-> cfg[k]]
         IN  KarafApply([store EXCEPT ![c.pid] = new], Tail(cmds))

\* module.run_command on one batch of sub-commands
Call(kind, cmds) == [kind |-> kind, cmds |-> cmds]

\* existing_properties: the batched query and the parse of its output
QueryCmds(name, new_properties) ==
    LET props == Keys(new_properties)
    IN  [i \in 1..Len(props) |-> GetCmd(name, props[i])]

existing_properties(store, name, new_properties) ==
    ParseProperties(KarafGet(store, QueryCmds(name, new_properties)))

\* the diff without the value comparison: only the keys that are not set
NeedChange_MissingOnly(new_properties, existing) ==
    SelectSeq(Keys(new_properties), LAMBDA k : k \notin DOMAIN existing)

\* need_change = [k for k,v in new_properties.items()
\*                if k not in existing_props or existing_props[k] != v]
NeedChange(new_properties, existing) ==
    SelectSeq(Keys(new_properties),
              LAMBDA k : k \notin DOMAIN existing \/ ~PyEq(existing[k], new_properties[k]))

\* the deletion diff without the presence test
NeedDelete_All(properties, existing) == Keys(properties)

\* need_delete = [k for k in properties.keys() if k in existing_props]
NeedDelete(properties, existing) ==
    SelectSeq(Keys(properties), LAMBDA k : k \in DOMAIN existing)

\* the early return on check mode left out
Mutates_IgnoringCheckMode(needed, check_mode) == needed # <<>>

\* the early returns of config_property_set / config_property_delete:
\* nothing is run when nothing needs changing or in check mode
Mutates(needed, check_mode) == needed # <<>> /\ ~check_mode

\* the batch without the `if k in need_change` filter
SetCmds_AllKeys(name, new_properties, need_change) ==
    LET ks == Keys(new_properties)
    IN  [i \in 1..Len(ks) |-> SetCmd(name, ks[i], new_properties[ks[i]])]

\* the property-set batch: one sub-command for each key in need_change
SetCmds(name, new_properties, need_change) ==
    LET ks == SelectSeq(Keys(new_properties), LAMBDA k : k \in Elems(need_change))
    IN  [i \in 1..Len(ks) |-> SetCmd(name, ks[i], new_properties[ks[i]])]

\* the property-delete batch: one sub-command for each key in need_delete
DeleteCmds(name, properties, need_delete) ==
    LET ks == SelectSeq(Keys(properties), LAMBDA k : k \in Elems(need_delete))
    IN  [i \in 1..Len(ks) |-> DeleteCmd(name, ks[i])]

NoInvocation ==
    [valid |-> FALSE, params |-> [name |-> <<>>, state |-> "present",
                                  properties |-> EmptyDict, check_mode |-> FALSE],
     changed |-> FALSE, need |-> <<>>, calls |-> <<>>, before |-> << >>, after |-> << >>]

cvars == <<karaf, c_pc, params, existing_props, need, result, calls, before, prev>>

ConfigInit ==
    /\ karaf \in [Pids -> Dicts(PropNames, StoredTexts)]
    /\ karaf[<<"q">>] = EmptyDict
    /\ c_pc = "idle"
    /\ params \in [name : Pids, state : {"present"}, properties : Dicts(PropNames, PropValues),
                   check_mode : {FALSE}]
    /\ existing_props = EmptyDict
    /\ need = <<>>
    /\ result = FALSE
    /\ calls = <<>>
    /\ before = karaf
    /\ prev = NoInvocation

\* main(): a playbook task runs the module: state and check mode are the task's,
\* the pid and the desired properties stay those of the playbook
ConfigMain ==
    /\ c_pc \in {"idle", "exited"}
    /\ \E st \in {"present", "absent"}, cm \in BOOLEAN :
          params' = [params EXCEPT !.state = st, !.check_mode = cm]
    /\ prev' = IF c_pc = "idle" THEN NoInvocation
               ELSE [valid |-> TRUE, params |-> params, changed |-> result, need |-> need,
                     calls |-> calls, before |-> before, after |-> karaf]
    /\ c_pc' = "main"
    /\ existing_props' = EmptyDict
    /\ need' = <<>>
    /\ result' = FALSE
    /\ calls' = <<>>
    /\ before' = karaf
    /\ UNCHANGED karaf

\* existing_props = existing_properties(module, client_bin, name, properties)
ConfigQuery ==
    /\ c_pc = "main"
    /\ existing_props' = existing_properties(karaf, params.name, params.properties)
    /\ calls' = Append(calls, Call("property-get", QueryCmds(params.name, params.properties)))
    /\ c_pc' = "queried"
    /\ UNCHANGED <<karaf, params, need, result, before, prev>>

\* the rest of config_property_set, and exit_json
ConfigSet ==
    /\ c_pc = "queried"
    /\ params.state = "present"
    /\ LET need_change == NeedChange(params.properties, existing_props)
           cmd == SetCmds(params.name, params.properties, need_change)
       IN  /\ need' = need_change
           /\ result' = (need_change # <<>>)
           /\ IF Mutates(need_change, params.check_mode)
              THEN /\ calls' = Append(calls, Call("property-set", cmd))
                   /\ karaf' = KarafApply(karaf, cmd)
              ELSE UNCHANGED <<calls, karaf>>
    /\ c_pc' = "exited"
    /\ UNCHANGED <<params, existing_props, before, prev>>

\* the rest of config_property_delete, and exit_json
ConfigDelete ==
    /\ c_pc = "queried"
    /\ params.state = "absent"
    /\ LET need_delete == NeedDelete(params.properties, existing_props)
           cmd == DeleteCmds(params.name, params.properties, need_delete)
       IN  /\ need' = need_delete
           /\ result' = (need_delete # <<>>)
           /\ IF Mutates(need_delete, params.check_mode)
              THEN /\ calls' = Append(calls, Call("property-delete", cmd))
                   /\ karaf' = KarafApply(karaf, cmd)
              ELSE UNCHANGED <<calls, karaf>>
    /\ c_pc' = "exited"
    /\ UNCHANGED <<params, existing_props, before, prev>>


----------------------------------------------------------------------------
(* The feature handler, karaf_feature.py *)

VARIABLES
    f_pc,          \* position of the feature handler: main, queried, exited, failed, crashed
    fparams,       \* module.params: name, version, state, force
    list_out,      \* what the client prints for feature:list
    is_installed,  \* what is_feature_installed returned, or that it raised
    f_calls,       \* the client commands run_command was given, in order
    f_run,         \* what run_command returned for feature:install / feature:uninstall
    f_result       \* how the invocation ended: exit_json, fail_json or an exception

FEATURE_STATE_UNINSTALLED == <<"U", "n", "i", "n", "s", "t", "a", "l", "l", "e", "d">>

Returned(b) == [raised |-> FALSE, value |-> b]
IndexError  == [raised |-> TRUE, value |-> FALSE]

\* the body of `for line in lines`: the value of is_installed after the line,
\* or IndexError from feature_data[3]
FeatureLine(line, feature_name, feature_version, installed) ==
    LET feature_data == Split(line, "|")
    IN  IF Len(feature_data) > 2
        THEN IF Len(feature_data) < 4 THEN IndexError
             ELSE LET name    == Strip(feature_data[1])
                      version == Strip(feature_data[2])
                      state   == Strip(feature_data[4])
                  IN  IF state # FEATURE_STATE_UNINSTALLED
                      THEN IF PyTruthy(feature_version)
                           THEN Returned(installed \/ (name = feature_name
                                                       /\ PyEq(PyStr(version), feature_version)))
                           ELSE Returned(installed \/ name = feature_name)
                      ELSE Returned(installed)
        ELSE Returned(installed)

RECURSIVE FeatureLines(_, _, _, _)
FeatureLines(lines, feature_name, feature_version, installed) ==
    IF lines = <<>> THEN Returned(installed)
    ELSE LET r == FeatureLine(Head(lines), feature_name, feature_version, installed)
         IN  IF r.raised THEN r
             ELSE FeatureLines(Tail(lines), feature_name, feature_version, r.value)

\* is_feature_installed, from the client's standard output on
is_feature_installed(out, feature_name, feature_version) ==
    FeatureLines(Split(out, NL), feature_name, feature_version, FALSE)

ReasonMarker == <<"r", "e", "a", "s", "o", "n", ":", " ">>

parse_error(string) ==
    LET i == Index(string, ReasonMarker)
    IN  IF i = 0 THEN string
        ELSE Strip(SubSeq(string, i + Len(ReasonMarker), Len(string)))

\* full_qualified_name
QualifiedName(name, version) ==
    IF PyTruthy(version) THEN name \o <<"/">> \o version.s ELSE name

\* the force test on the other state
ForceBranch_Absent(force, state) == PyEq(force, PyBool(TRUE)) /\ state = "absent"

\* if force == True and state == "present"
ForceBranch(force, state) == PyEq(force, PyBool(TRUE)) /\ state = "present"

\* (is_installed and state == "present") or (state == "absent" and not is_installed)
StateCorrect(installed, state) ==
    (installed /\ state = "present") \/ (state = "absent" /\ ~installed)

FeatureCmd(op, arg) == [op |-> op, arg |-> arg]

\* the feature:list rows the client prints, as their fields; the last three are
\* an empty line, a line of two fields and a line of three
FeatureRows ==
    { << n, v, <<"x">>, st, <<"r">> >> :
        n  \in { <<"a", " ">>, <<"b">> },
        v  \in { <<"1">>, <<" ", "2">> },
        st \in { <<" ">> \o FEATURE_STATE_UNINSTALLED \o <<" ">>,
                 <<"S", "t", "a", "r", "t", "e", "d">> } }
    \cup { << <<>> >>, << <<"a">>, <<"1">> >>, << <<"a">>, <<"1">>, <<"x">> >> }

MaxLines == 2

\* the client outputs of at most k of the given lines
Outputs(lineSet, k) ==
    { Join(ls, <<NL>>) : ls \in UNION { [1..n -> lineSet] : n \in 0..k } }

ListOutputs == Outputs({ Join(row, <<"|">>) : row \in FeatureRows }, MaxLines)

\* what run_command returns for feature:install / feature:uninstall
RunResults ==
    [rc : {0}, out : { <<>> }] \cup
    [rc : {1}, out : { <<"x">>,
                       <<"E", " ">> \o ReasonMarker \o <<"x", " ">>,
                       ReasonMarker \o <<"a", " ">> \o ReasonMarker \o <<"b">> }]

NoResult == [kind |-> "none", changed |-> FALSE, msg |-> PyNone]
exit_json(changed) == [kind |-> "exit", changed |-> changed, msg |-> PyNone]
fail_json(msg) == [kind |-> "fail", changed |-> FALSE, msg |-> msg]
Traceback == [kind |-> "exception", changed |-> FALSE, msg |-> PyNone]

NotRun == [rc |-> 0, out |-> <<>>]

fvars == <<f_pc, fparams, list_out, is_installed, f_calls, f_run, f_result>>

FeatureInit ==
    /\ f_pc = "main"
    /\ fparams \in [name : { <<"a">> },
                    version : { PyNone, PyStr(<<"1">>), PyStr(<<"2">>) },
                    state : {"present", "absent"},
                    force : { PyBool(FALSE), PyBool(TRUE), PyStr(<<"y", "e", "s">>) }]
    /\ list_out \in ListOutputs
    /\ is_installed = Returned(FALSE)
    /\ f_calls = <<>>
    /\ f_run = NotRun
    /\ f_result = NoResult

\* module.fail_json(msg=force): the process exits, lines 144-145 never run
FeatureForceFail ==
    /\ f_pc = "main"
    /\ ForceBranch(fparams.force, fparams.state)
    /\ f_result' = fail_json(fparams.force)
    /\ f_pc' = "failed"
    /\ UNCHANGED <<fparams, list_out, is_installed, f_calls, f_run>>

\* is_installed = is_feature_installed(client_bin, module, name, version)
FeatureQuery ==
    /\ f_pc = "main"
    /\ ~ForceBranch(fparams.force, fparams.state)
    /\ f_calls' = Append(f_calls, FeatureCmd("feature:list", <<>>))
    /\ is_installed' = is_feature_installed(list_out, fparams.name, fparams.version)
    /\ IF is_installed'.raised
       THEN f_pc' = "crashed" /\ f_result' = Traceback
       ELSE f_pc' = "queried" /\ UNCHANGED f_result
    /\ UNCHANGED <<fparams, list_out, f_run>>

\* skip if the state is correct: module.exit_json(changed=False, ...)
FeatureSkip ==
    /\ f_pc = "queried"
    /\ StateCorrect(is_installed.value, fparams.state)
    /\ f_result' = exit_json(FALSE)
    /\ f_pc' = "exited"
    /\ UNCHANGED <<fparams, list_out, is_installed, f_calls, f_run>>

\* install_feature / uninstall_feature, then exit_json(changed=changed, ...)
RunFeature(op) ==
    \E run \in RunResults :
        /\ f_calls' = Append(f_calls, FeatureCmd(op, QualifiedName(fparams.name, fparams.version)))
        /\ f_run' = run
        /\ IF run.rc # 0
           THEN f_result' = fail_json(PyStr(parse_error(run.out))) /\ f_pc' = "failed"
           ELSE f_result' = exit_json(TRUE) /\ f_pc' = "exited"
        /\ UNCHANGED <<fparams, list_out, is_installed>>

FeatureInstall ==
    /\ f_pc = "queried"
    /\ ~StateCorrect(is_installed.value, fparams.state)
    /\ fparams.state = "present"
    /\ RunFeature("feature:install")

FeatureUninstall ==
    /\ f_pc = "queried"
    /\ ~StateCorrect(is_installed.value, fparams.state)
    /\ fparams.state = "absent"
    /\ RunFeature("feature:uninstall")

----------------------------------------------------------------------------
(* The property reader on any client output *)

VARIABLES
    p_pc,      \* start, parsed
    p_out,     \* what the client prints for the batched property-get
    p_result   \* the dict existing_properties returns

\* lines the client may print: empty, a banner, well-formed properties, padded
\* with blanks, with two separators, with nothing around the separator
PropLines ==
    { <<>>,
      <<"x">>,
      <<"a", "=", "1">>,
      <<" ", "a", " ", "=", " ", "x", " ">>,
      <<"b", "=", "y", "=", "1">>,
      <<"=">>,
      <<"b", "=", "n", "o">>,
      <<"a", "=", "1", ".", "0">> }

PropOutputs == Outputs(PropLines, MaxLines)

rvars == <<p_pc, p_out, p_result>>

ReaderInit ==
    /\ p_pc = "start"
    /\ p_out \in PropOutputs
    /\ p_result = EmptyDict

\* lines 82-95 of existing_properties on the output
ReadProperties ==
    /\ p_pc = "start"
    /\ p_result' = ParseProperties(p_out)
    /\ p_pc' = "parsed"
    /\ UNCHANGED p_out

----------------------------------------------------------------------------
(* Specifications: each handler runs alone, as its own process *)

vars == <<cvars, fvars, rvars>>

ConfigIdle ==
    /\ karaf = [p \in Pids |-> EmptyDict]
    /\ c_pc = "off"
    /\ params = NoInvocation.params
    /\ existing_props = EmptyDict
    /\ need = <<>>
    /\ result = FALSE
    /\ calls = <<>>
    /\ before = karaf
    /\ prev = NoInvocation

FeatureIdle ==
    /\ f_pc = "off"
    /\ fparams = [name |-> <<>>, version |-> PyNone, state |-> "present", force |-> PyBool(FALSE)]
    /\ list_out = <<>>
    /\ is_installed = Returned(FALSE)
    /\ f_calls = <<>>
    /\ f_run = NotRun
    /\ f_result = NoResult

ReaderIdle ==
    /\ p_pc = "off"
    /\ p_out = <<>>
    /\ p_result = EmptyDict

Next ==
    \/ ConfigMain   /\ UNCHANGED <<fvars, rvars>>
    \/ ConfigQuery  /\ UNCHANGED <<fvars, rvars>>
    \/ ConfigSet    /\ UNCHANGED <<fvars, rvars>>
    \/ ConfigDelete /\ UNCHANGED <<fvars, rvars>>

Init == ConfigInit /\ FeatureIdle /\ ReaderIdle

Spec == Init /\ [][Next]_vars

FeatureNext ==
    \/ FeatureForceFail /\ UNCHANGED <<cvars, rvars>>
    \/ FeatureQuery     /\ UNCHANGED <<cvars, rvars>>
    \/ FeatureSkip      /\ UNCHANGED <<cvars, rvars>>
    \/ FeatureInstall   /\ UNCHANGED <<cvars, rvars>>
    \/ FeatureUninstall /\ UNCHANGED <<cvars, rvars>>

FeatureSpecInit == ConfigIdle /\ FeatureInit /\ ReaderIdle

SpecFeature == FeatureSpecInit /\ [][FeatureNext]_vars

ReaderNext == ReadProperties /\ UNCHANGED <<cvars, fvars>>

ReaderSpecInit == ConfigIdle /\ FeatureIdle /\ ReaderInit

SpecReader == ReaderSpecInit /\ [][ReaderNext]_vars

----------------------------------------------------------------------------
(* Properties of the config handler, under Spec *)

\* how many of the calls are of one of the kinds
CountKind(seq, kinds) == Cardinality({i \in 1..Len(seq) : seq[i].kind \in kinds})

Mutations == {"property-set", "property-delete"}

CmdKeys(call) == {call.cmds[i].key : i \in 1..Len(call.cmds)}

\* the desired keys that are not observed or observed with an unequal value
Differing(desired, observed) ==
    {k \in DOMAIN desired : k \notin DOMAIN observed \/ ~PyEq(observed[k], desired[k])}

\* C1: two consecutive non-dry-run state=present invocations with the same pid
\* and the same desired properties, the first from a container where a desired
\* key is missing or different: the first reports changed, the second reports
\* unchanged and runs no property-set.
C1_Idempotent ==
    ( /\ c_pc = "exited" /\ prev.valid
      /\ prev.params = params
      /\ params.state = "present" /\ ~params.check_mode
      /\ Differing(params.properties, ParseProperties(
                     KarafGet(prev.before, QueryCmds(params.name, params.properties)))) # {} )
    => ( /\ prev.changed
         /\ ~result
         /\ CountKind(calls, Mutations) = 0 )

\* C2: with state=present, need_change holds exactly the desired keys that are
\* absent from the observed properties or observed with an unequal value, and
\* changed is reported exactly when it is not empty.
C2_NeedChangeExact ==
    (c_pc = "exited" /\ params.state = "present")
    => ( /\ Elems(need) = Differing(params.properties, existing_props)
         /\ \A k \in DOMAIN params.properties :
               (k \in DOMAIN existing_props /\ PyEq(existing_props[k], params.properties[k]))
               => k \notin Elems(need)
         /\ result = (need # <<>>) )

\* a present invocation where one observed key is equal (as a value, not as
\* text) and stays out of need_change while another is unequal and is in it
C2_Witness ==
    /\ c_pc = "exited" /\ params.state = "present"
    /\ \E k \in DOMAIN existing_props \ Elems(need) :
          k \in DOMAIN params.properties /\ PyFormat(existing_props[k]) # PyFormat(params.properties[k])
    /\ \E k \in Elems(need) : k \in DOMAIN existing_props
    /\ result

\* C3: with state=absent, need_delete holds exactly the desired keys that are
\* observed; when it is not empty changed is reported and, outside check mode,
\* one property-delete batch is run; when it is empty changed is false and no
\* property-delete is run.
C3_DeleteExact ==
    (c_pc = "exited" /\ params.state = "absent")
    => ( /\ Elems(need) = (DOMAIN params.properties) \cap (DOMAIN existing_props)
         /\ result = (need # <<>>)
         /\ CountKind(calls, {"property-set"}) = 0
         /\ CountKind(calls, {"property-delete"})
               = IF need # <<>> /\ ~params.check_mode THEN 1 ELSE 0 )

\* an absent invocation over two desired keys of which one is set: it alone is
\* deleted
C3_Witness ==
    /\ c_pc = "exited" /\ params.state = "absent" /\ ~params.check_mode
    /\ Cardinality(DOMAIN params.properties) = 2
    /\ Len(need) = 1
    /\ result
    /\ Len(calls) = 2 /\ calls[2].kind = "property-delete"
    /\ need[1] \notin DOMAIN karaf[params.name]

\* C4: an invocation in check mode runs no property-set and no property-delete
\* and leaves the container's configuration as it was, and it reports the
\* changed value that the next invocation, with the same parameters outside
\* check mode and from the same container state, reports.
C4_DryRun ==
    /\ (c_pc = "exited" /\ params.check_mode)
       => (karaf = before /\ CountKind(calls, Mutations) = 0)
    /\ ( /\ c_pc = "exited" /\ prev.valid
         /\ prev.params.check_mode /\ ~params.check_mode
         /\ prev.params.state = params.state
         /\ prev.params.name = params.name
         /\ prev.params.properties = params.properties
         /\ prev.before = before )
       => result = prev.changed

\* a dry run that reported a change, followed by the real run that made it
C4_Witness ==
    /\ c_pc = "exited" /\ prev.valid
    /\ prev.params.check_mode /\ ~params.check_mode
    /\ prev.params.state = params.state
    /\ prev.before = before /\ prev.after = before
    /\ prev.changed /\ result
    /\ karaf # before

\* C5: an invocation outside check mode runs the query first and once, then one
\* mutating batch if a key needs changing and none otherwise; the batch is of
\* the kind of the state, and has one sub-command for each key that needs
\* changing, for the handler's pid, and for no other key.
C5_OneBatch ==
    /\ calls # <<>> =>
          /\ calls[1].kind = "property-get"
          /\ CountKind(calls, {"property-get"}) = 1
    /\ (c_pc = "exited" /\ ~params.check_mode)
       => LET wanted == IF params.state = "present"
                        THEN Differing(params.properties, existing_props)
                        ELSE (DOMAIN params.properties) \cap (DOMAIN existing_props)
          IN  /\ Len(calls) = IF wanted = {} THEN 1 ELSE 2
              /\ \A i \in 2..Len(calls) :
                    /\ calls[i].kind = IF params.state = "present"
                                       THEN "property-set" ELSE "property-delete"
                    /\ CmdKeys(calls[i]) = wanted
                    /\ Len(calls[i].cmds) = Cardinality(wanted)
                    /\ \A j \in 1..Len(calls[i].cmds) :
                          /\ calls[i].cmds[j].pid = params.name
                          /\ calls[i].cmds[j].key \in DOMAIN params.properties
              /\ \A p \in Pids : \A k \in PropNames \ wanted :
                    (k \in DOMAIN karaf[p]) = (k \in DOMAIN before[p])
                    /\ (k \in DOMAIN karaf[p] => karaf[p][k] = before[p][k])

\* a present invocation over two desired keys of which one needs changing: the
\* batch sets it alone
C5_Witness ==
    /\ c_pc = "exited" /\ ~params.check_mode /\ params.state = "present"
    /\ Cardinality(DOMAIN params.properties) = 2
    /\ Len(calls) = 2
    /\ Len(calls[2].cmds) = 1

----------------------------------------------------------------------------
(* Properties of the feature handler, under SpecFeature *)

OutputLines(out) == LET ls == Split(out, NL) IN {ls[i] : i \in 1..Len(ls)}

\* a feature record that is installed and matches the request
Matches(line, feature_name, feature_version) ==
    LET f == Split(line, "|")
    IN  /\ Len(f) >= 4
        /\ Strip(f[4]) # FEATURE_STATE_UNINSTALLED
        /\ Strip(f[1]) = feature_name
        /\ (feature_version # PyNone => Strip(f[2]) = feature_version.s)

Installed(out, feature_name, feature_version) ==
    \E line \in OutputLines(out) : Matches(line, feature_name, feature_version)

Queried == f_calls # <<>>

Ended == f_pc \in {"exited", "failed", "crashed"}

\* C6: is_feature_installed returns true exactly when some record of the
\* output is not Uninstalled and has the requested name and, if a version was
\* requested, the requested version; otherwise it returns false.
C6_MatchPolicy ==
    Queried => is_installed = Returned(Installed(list_out, fparams.name, fparams.version))

\* C7: an invocation without force+present queries first; if the feature's
\* status is the desired one it ends unchanged with no other command; otherwise
\* it runs one install (present) or uninstall (absent) of the qualified name and
\* ends changed on exit code zero, failed with the extracted reason otherwise.
C7_Outcome ==
    (Ended /\ ~(PyEq(fparams.force, PyBool(TRUE)) /\ fparams.state = "present"))
    => /\ f_calls[1] = FeatureCmd("feature:list", <<>>)
       /\ IF Installed(list_out, fparams.name, fparams.version) = (fparams.state = "present")
          THEN f_result = exit_json(FALSE) /\ Len(f_calls) = 1
          ELSE /\ Len(f_calls) = 2
               /\ f_calls[2] =
                     FeatureCmd(IF fparams.state = "present" THEN "feature:install"
                                                             ELSE "feature:uninstall",
                                IF fparams.version = PyNone THEN fparams.name
                                ELSE fparams.name \o <<"/">> \o fparams.version.s)
               /\ f_run.rc = 0 => f_result = exit_json(TRUE)
               /\ f_run.rc # 0 =>
                     /\ f_result.kind = "fail"
                     /\ f_result.msg =
                           PyStr(IF Index(f_run.out, ReasonMarker) = 0 THEN f_run.out
                                 ELSE Strip(SubSeq(f_run.out,
                                                   Index(f_run.out, ReasonMarker) + Len(ReasonMarker),
                                                   Len(f_run.out))))

C9_ReadersTotal ==
    /\ ~is_installed.raised
    /\ f_pc # "crashed"
    /\ f_result.kind # "exception"

----------------------------------------------------------------------------
(* Properties of the property reader, under SpecReader *)

CountSep(line) == Cardinality({i \in 1..Len(line) : line[i] = "="})

\* the text before / after the line's first separator
BeforeSep(line) ==
    LET i == CHOOSE i \in 1..Len(line) : line[i] = "=" /\ \A j \in 1..(i - 1) : line[j] # "="
    IN  SubSeq(line, 1, i - 1)
AfterSep(line) ==
    LET i == CHOOSE i \in 1..Len(line) : line[i] = "=" /\ \A j \in 1..(i - 1) : line[j] # "="
    IN  SubSeq(line, i + 1, Len(line))

\* the dict has an entry for each significant line (one whose number of
\* separators is among `counts`), and no other: its key the trimmed text before
\* the separator, its value the conversion of the trimmed text after it (of the
\* last such line, when lines share a key)
EntriesOf(res, out, counts) ==
    LET lines == Split(out, NL)
        sig   == {i \in 1..Len(lines) : CountSep(lines[i]) \in counts}
    IN  /\ DOMAIN res = {Strip(BeforeSep(lines[i])) : i \in sig}
        /\ \A i \in sig :
              (\A j \in sig : j > i => Strip(BeforeSep(lines[j])) # Strip(BeforeSep(lines[i])))
              => res[Strip(BeforeSep(lines[i]))] = convert(Strip(AfterSep(lines[i])))

\* C10 as stated: a line is significant only if it has exactly one separator
C10_ExactlyOneSeparator ==
    p_pc = "parsed" => EntriesOf(p_result, p_out, {1})

\* C10 amended: a line is significant if it has at least one separator, and it
\* is cut at the first
C10_AtLeastOneSeparator ==
    p_pc = "parsed" => EntriesOf(p_result, p_out, 1..Len(p_out))

\* an output with a line of two separators, which gives an entry
C10_Witness ==
    /\ p_pc = "parsed"
    /\ \E l \in OutputLines(p_out) : CountSep(l) = 2
    /\ <<"b">> \in DOMAIN p_result
    /\ p_result[<<"b">>] = PyStr(<<"y", "=", "1">>)

====
